---- MODULE Spec2Model ----
(***************************************************************************)
(* Model of hologlyph.js: the HSBA pixel codec, the .glyf container codec  *)
(* (header builder and parser, run-length compression, whole-file          *)
(* compress / decompress) and HologlyphPlayer (playback, camera handlers,  *)
(* data reload, the voxel loops of the two render paths).                  *)
(*                                                                         *)
(* The codec functions are pure; each is an operator translated from its   *)
(* source.  A call returns a record                                        *)
(*     [ret |-> value, thrown |-> message or NoError, warn |-> messages]   *)
(* where warn lists the console.warn messages the call emits.  Typed       *)
(* arrays are sequences of bytes; the code's 0-based index i is position   *)
(* i + 1 of the sequence.                                                  *)
(*                                                                         *)
(* The specifications share the variables; each leaves those of the others *)
(* at their idle values.  SpecRLE, SpecHeader, SpecFile, SpecCodec and     *)
(* SpecPixel apply the pure functions to inputs drawn from bounded sets;   *)
(* SpecPlayer, SpecPlayerFair, SpecDrag, SpecZoom, SpecReload and          *)
(* SpecRender run the methods and handlers of a constructed player.        *)
(***************************************************************************)
EXTENDS Integers, Sequences, FiniteSets, TLC

VARIABLES
    pc,             \* position of the calling program
    console,        \* console.warn messages emitted so far
    thrown,         \* message of the Error that propagated out of the last call
    voxelData,      \* argument of compressRLE
    compressedData, \* argument of decompressRLE
    expectedLength, \* argument of decompressRLE
    decompressed,   \* return value of decompressRLE
    options,        \* argument of createHologlyphHeader
    headerBytes,    \* argument of parseHologlyphHeader
    header,         \* return value of parseHologlyphHeader
    original,       \* the .glyf buffer the caller started from
    previous,       \* argument of the last whole-file call
    buffer,         \* return value of the last whole-file call
    calls,          \* the whole-file calls made so far, in order
    mark,           \* number of console messages before the last whole-file call
    player,         \* the fields of the HologlyphPlayer instance
    now,            \* the animation clock (DOMHighResTimeStamp, in ms)
    pending,        \* _loop callbacks requested for the next animation frame
    toRun,          \* _loop callbacks of the current animation frame not yet run
    rendered,       \* the frame index drawn by the last render(), <<>> before any
    tick,           \* history: accumulated time found, delta and frame advances
                    \*          of the _loop invocation in progress or last finished
    playback,       \* history: what happened since playback last started
    mouse,          \* closure of _setupOrbitalDrag: isDragging, lastMouseX/Y
    touch,          \* closure of _setupZoomControls: touchStartDistance/Zoom
    drawn,          \* the cubes emitted by the last render(), <<>> before any
    hsba,           \* argument of HSBAUtil.encodePixel
    pixel,          \* return value of HSBAUtil.encodePixel
    decoded,        \* return value of HSBAUtil.decodePixel
    prior           \* history: argument and result of the round trip before

rleVars == <<voxelData, compressedData, expectedLength, decompressed>>
headerVars == <<options, headerBytes, header>>
fileVars == <<original, previous, buffer, calls, mark>>
playerVars == <<player, now, pending, toRun, rendered, tick, playback>>
cameraVars == <<mouse, touch>>
renderVars == <<drawn>>
pixelVars == <<hsba, pixel, decoded, prior>>

vars == <<pc, console, thrown, rleVars, headerVars, fileVars, playerVars,
          cameraVars, renderVars, pixelVars>>

-----------------------------------------------------------------------------
(* JavaScript values *)

NoError == "none"

\* What a typed-array read past the end yields (JavaScript undefined).
Undefined == -1

\* u8[i], 0-based.
At(u8, i) == IF i >= 0 /\ i < Len(u8) THEN u8[i + 1] ELSE Undefined

\* Conversion of a value stored into a Uint8Array element.
ToUint8(v) == IF v = Undefined THEN 0 ELSE v % 256

\* new Uint8Array(array)
ToUint8Array(a) == [k \in 1..Len(a) |-> ToUint8(a[k])]

\* new Uint8Array(n): n zero bytes
ZeroBytes(n) == [k \in 1..n |-> 0]

\* u8.slice(from, to), 0-based, to exclusive
Slice(u8, from, to) ==
    LET lo == IF from > Len(u8) THEN Len(u8) ELSE from
        hi == IF to > Len(u8) THEN Len(u8) ELSE to
    IN  IF hi <= lo THEN <<>> ELSE SubSeq(u8, lo + 1, hi)

Return(v) == [ret |-> v, thrown |-> NoError, warn |-> <<>>]
ReturnWarn(v, w) == [ret |-> v, thrown |-> NoError, warn |-> <<w>>]
Throw(msg) == [ret |-> <<>>, thrown |-> msg, warn |-> <<>>]

-----------------------------------------------------------------------------
(* Run-length codec *)

MAX_RLE_RUN == 255

\* SameVoxel without the comparison of the alpha byte
SameVoxelNoAlpha(data, i, j) ==
    /\ At(data, j) = At(data, i)
    /\ At(data, j + 1) = At(data, i + 1)
    /\ At(data, j + 2) = At(data, i + 2)

SameVoxel(data, i, j) ==
    /\ At(data, j) = At(data, i)
    /\ At(data, j + 1) = At(data, i + 1)
    /\ At(data, j + 2) = At(data, i + 2)
    /\ At(data, j + 3) = At(data, i + 3)

\* CountRun with the loop test count <= MAX_RLE_RUN
CountRunOffByOne(data, i) ==
    LET stops == {k \in 1..(MAX_RLE_RUN + 1) :
                     \/ ~(i + 4 * k < Len(data) /\ k <= MAX_RLE_RUN)
                     \/ ~SameVoxel(data, i, i + 4 * k)}
        count == CHOOSE k \in stops : \A m \in stops : k <= m
    IN  <<count, i + 4 * count>>

\* The inner while loop of compressRLE.  It starts with count = 1, j = i + 4,
\* so its k-th test (k = 1, 2, ...) has count = k and j = i + 4k, and the loop
\* ends at the first test that finds j past the end, count at MAX_RLE_RUN or
\* a voxel that differs.  <<count, j>> when it ends.
CountRun(data, i) ==
    LET stops == {k \in 1..MAX_RLE_RUN :
                     \/ ~(i + 4 * k < Len(data) /\ k < MAX_RLE_RUN)
                     \/ ~SameVoxel(data, i, i + 4 * k)}
        count == CHOOSE k \in stops : \A m \in stops : k <= m
    IN  <<count, i + 4 * count>>

RECURSIVE CompressLoop(_, _, _)
\* The outer while loop of compressRLE.
CompressLoop(data, i, compressed) ==
    IF i < Len(data)
    THEN LET h == At(data, i)
             s == At(data, i + 1)
             b == At(data, i + 2)
             a == At(data, i + 3)
             run == CountRun(data, i)
         IN  CompressLoop(data, run[2], compressed \o <<run[1], h, s, b, a>>)
    ELSE compressed

compressRLE(data) ==
    IF Len(data) = 0 THEN Return(<<>>)
    ELSE IF Len(data) % 4 # 0 THEN Throw("Voxel data must be multiple of 4 bytes")
    ELSE Return(ToUint8Array(CompressLoop(data, 0, <<>>)))

\* The for loop of decompressRLE.  Iteration i finds writePos + 4i; the loop
\* breaks at the first i with writePos + 4i + 4 > expected, so the iterations
\* that write are the i < count below that.  <<decompressed, writePos>> when
\* it ends.
WriteRun(out, writePos, count, px, expected) ==
    LET written == {i \in 0..(count - 1) : ~(writePos + 4 * i + 4 > expected)}
        end == writePos + 4 * Cardinality(written)
    IN  <<[k \in 1..Len(out) |->
              IF writePos < k /\ k <= end
              THEN ToUint8(px[((k - writePos - 1) % 4) + 1])
              ELSE out[k]],
          end>>

RECURSIVE DecompressLoop(_, _, _, _, _)
\* The while loop of decompressRLE: <<decompressed, writePos>> when it ends.
DecompressLoop(data, expected, out, writePos, readPos) ==
    IF readPos < Len(data) /\ writePos < expected
    THEN LET count == At(data, readPos)
             px == <<At(data, readPos + 1), At(data, readPos + 2),
                     At(data, readPos + 3), At(data, readPos + 4)>>
             w == WriteRun(out, writePos, count, px, expected)
         IN  DecompressLoop(data, expected, w[1], w[2], readPos + 5)
    ELSE <<out, writePos>>

MismatchWarning == "RLE decompression mismatch"

\* decompressRLE with the final test writePos > expectedLength
decompressRLEWarnOver(data, expected) ==
    LET r == DecompressLoop(data, expected, ZeroBytes(expected), 0, 0)
    IN  IF r[2] > expected
        THEN ReturnWarn(r[1], MismatchWarning)
        ELSE Return(r[1])

\* decompressRLE that returns only the bytes its runs wrote
decompressRLETrimmed(data, expected) ==
    LET r == DecompressLoop(data, expected, ZeroBytes(expected), 0, 0)
    IN  IF r[2] # expected
        THEN ReturnWarn(SubSeq(r[1], 1, r[2]), MismatchWarning)
        ELSE Return(r[1])

decompressRLE(data, expected) ==
    LET r == DecompressLoop(data, expected, ZeroBytes(expected), 0, 0)
    IN  IF r[2] # expected
        THEN ReturnWarn(r[1], MismatchWarning)
        ELSE Return(r[1])

-----------------------------------------------------------------------------
(* Header builder and parser *)

\* "HGLY" as char codes: charCodeAt reads one, String.fromCharCode makes one.
HOLOGLYPH_MAGIC == <<72, 71, 76, 89>>
HOLOGLYPH_VERSION == 1
HSBA_255_100 == 0
COMPRESSION_NONE == 0
COMPRESSION_RLE == 1
HeaderSize == 28

\* u8[i] = v
SetU8(u8, i, v) == [u8 EXCEPT ![i + 1] = ToUint8(v)]

\* A Number written to or read from a 32-bit field is held as the pair
\* <<n \div 65536, n % 65536>>, since TLC's integers end at 2^31 - 1.
Num(n) == <<n \div 65536, n % 65536>>
NumValue(w) == w[1] * 65536 + w[2]

\* dv.setUint32(offset, w, true): little-endian, w taken modulo 2^32
SetUint32(u8, offset, w) ==
    LET hi == w[1] % 65536
        lo == w[2]
    IN  [u8 EXCEPT ![offset + 1] = lo % 256,
                   ![offset + 2] = lo \div 256,
                   ![offset + 3] = hi % 256,
                   ![offset + 4] = hi \div 256]

\* dv.getUint32(offset) without the little-endian flag: a big-endian read
GetUint32BigEndian(u8, offset) ==
    <<At(u8, offset + 1) + 256 * At(u8, offset),
      At(u8, offset + 3) + 256 * At(u8, offset + 2)>>

\* dv.getUint32(offset, true)
GetUint32(u8, offset) ==
    <<At(u8, offset + 2) + 256 * At(u8, offset + 3),
      At(u8, offset) + 256 * At(u8, offset + 1)>>

\* target.set(source, offset)
SetBytes(target, source, offset) ==
    [k \in 1..Len(target) |->
        IF offset < k /\ k <= offset + Len(source)
        THEN source[k - offset]
        ELSE target[k]]

\* A destructured option: the supplied value, or the default when absent.
Opt(opts, name, default) ==
    IF name \in DOMAIN opts THEN opts[name] ELSE default

createHologlyphHeader(opts) ==
    LET width == Opt(opts, "width", 32)
        height == Opt(opts, "height", 32)
        depth == Opt(opts, "depth", 32)
        frameCount == Opt(opts, "frameCount", Num(1))
        frameDurationMs == Opt(opts, "frameDurationMs", Num(100))
        loop == Opt(opts, "loop", TRUE)
        loopStartFrame == Opt(opts, "loopStartFrame", Num(0))
        bytesPerVoxel == Opt(opts, "bytesPerVoxel", 4)
        colorModel == Opt(opts, "colorModel", HSBA_255_100)
        compressionType == Opt(opts, "compressionType", COMPRESSION_NONE)
        flags == IF loop THEN 1 ELSE 0
        b0 == SetBytes(ZeroBytes(HeaderSize), HOLOGLYPH_MAGIC, 0)
        b4 == SetU8(b0, 4, HOLOGLYPH_VERSION)
        b5 == SetU8(b4, 5, HeaderSize)
        b6 == SetU8(b5, 6, flags)
        b7 == SetU8(b6, 7, bytesPerVoxel)
        b8 == SetU8(b7, 8, width)
        b9 == SetU8(b8, 9, height)
        b10 == SetU8(b9, 10, depth)
        b11 == SetU8(b10, 11, colorModel)
        b12 == SetUint32(b11, 12, frameCount)
        b16 == SetUint32(b12, 16, frameDurationMs)
        b20 == SetUint32(b16, 20, Num(0))
        b24 == SetUint32(b20, 24, loopStartFrame)
    IN  SetU8(b24, 23, compressionType)

\* The first four bytes as a string
MagicOf(u8) == <<u8[1]>> \o <<u8[2]>> \o <<u8[3]>> \o <<u8[4]>>

\* The record parseHologlyphHeader returns
HeaderRecord(u8) ==
    LET flags == At(u8, 6)
        width == At(u8, 8)
        height == At(u8, 9)
        depth == At(u8, 10)
        bytesPerVoxel == At(u8, 7)
    IN  [magic |-> MagicOf(u8),
         version |-> At(u8, 4),
         headerSize |-> At(u8, 5),
         loop |-> (flags % 2 # 0),
         loopStartFrame |-> GetUint32(u8, 24),
         bytesPerVoxel |-> bytesPerVoxel,
         width |-> width,
         height |-> height,
         depth |-> depth,
         colorModel |-> At(u8, 11),
         compressionType |->
             IF At(u8, 23) = 0 THEN COMPRESSION_NONE ELSE At(u8, 23),
         frameCount |-> GetUint32(u8, 12),
         frameDurationMs |-> GetUint32(u8, 16),
         frameSizeBytes |-> width * height * depth * bytesPerVoxel,
         dataOffset |-> 28]

\* parseHologlyphHeader with a test that refuses versions it does not know
parseRejectNewer(u8) ==
    IF Len(u8) < 28 THEN Throw("Invalid hologlyph buffer")
    ELSE IF MagicOf(u8) # HOLOGLYPH_MAGIC THEN Throw("Invalid magic")
    ELSE IF At(u8, 4) > HOLOGLYPH_VERSION THEN Throw("Unsupported version")
    ELSE Return(HeaderRecord(u8))

parseHologlyphHeader(u8) ==
    IF Len(u8) < 28 THEN Throw("Invalid hologlyph buffer")
    ELSE IF MagicOf(u8) # HOLOGLYPH_MAGIC THEN Throw("Invalid magic")
    ELSE Return(HeaderRecord(u8))

-----------------------------------------------------------------------------
(* Whole-file compression *)

AlreadyCompressedWarning == "File is already compressed"
UnknownCompressionError == "Unknown compression type"

\* The options compressGlyfFile and decompressGlyfFile rebuild the header from.
RebuildOptions(hdr, compressionType) ==
    [width |-> hdr.width,
     height |-> hdr.height,
     depth |-> hdr.depth,
     frameCount |-> hdr.frameCount,
     frameDurationMs |-> hdr.frameDurationMs,
     loop |-> hdr.loop,
     loopStartFrame |-> hdr.loopStartFrame,
     bytesPerVoxel |-> hdr.bytesPerVoxel,
     colorModel |-> hdr.colorModel,
     compressionType |-> compressionType]

\* new Uint8Array(a.length + b.length) with a set at 0 and b at a.length
Combine(a, b) ==
    SetBytes(SetBytes(ZeroBytes(Len(a) + Len(b)), a, 0), b, Len(a))

\* compressGlyfFile past its already-compressed test
CompressPayload(buf, hdr) ==
    LET data == Slice(buf, 28, Len(buf))
        compressedVoxels == compressRLE(data)
        newHeader == createHologlyphHeader(RebuildOptions(hdr, COMPRESSION_RLE))
    IN  IF compressedVoxels.thrown # NoError
        THEN Throw(compressedVoxels.thrown)
        ELSE Return(Combine(newHeader, compressedVoxels.ret))

\* compressGlyfFile without the already-compressed test
compressGlyfFileAlways(buf) ==
    LET parsed == parseHologlyphHeader(buf)
    IN  IF parsed.thrown # NoError THEN Throw(parsed.thrown)
        ELSE CompressPayload(buf, parsed.ret)

compressGlyfFile(buf) ==
    LET parsed == parseHologlyphHeader(buf)
    IN  IF parsed.thrown # NoError THEN Throw(parsed.thrown)
        ELSE IF parsed.ret.compressionType # COMPRESSION_NONE
        THEN ReturnWarn(buf, AlreadyCompressedWarning)
        ELSE CompressPayload(buf, parsed.ret)

\* The RLE branch of decompressGlyfFile
DecompressPayload(buf, hdr) ==
    LET compressedVoxels == Slice(buf, 28, Len(buf))
        expected == hdr.frameSizeBytes * NumValue(hdr.frameCount)
        decompressedVoxels == decompressRLE(compressedVoxels, expected)
        newHeader == createHologlyphHeader(RebuildOptions(hdr, COMPRESSION_NONE))
    IN  [ret |-> Combine(newHeader, decompressedVoxels.ret),
         thrown |-> NoError,
         warn |-> decompressedVoxels.warn]

\* decompressGlyfFile that hands an unknown compression type back unchanged
decompressGlyfFilePassThrough(buf) ==
    LET parsed == parseHologlyphHeader(buf)
    IN  IF parsed.thrown # NoError THEN Throw(parsed.thrown)
        ELSE IF parsed.ret.compressionType = COMPRESSION_RLE
        THEN DecompressPayload(buf, parsed.ret)
        ELSE Return(buf)

decompressGlyfFile(buf) ==
    LET parsed == parseHologlyphHeader(buf)
    IN  IF parsed.thrown # NoError THEN Throw(parsed.thrown)
        ELSE IF parsed.ret.compressionType = COMPRESSION_NONE THEN Return(buf)
        ELSE IF parsed.ret.compressionType = COMPRESSION_RLE
        THEN DecompressPayload(buf, parsed.ret)
        ELSE Throw(UnknownCompressionError)

-----------------------------------------------------------------------------
(* Inputs of the run-length codec *)

MaxSegs == 3
MaxRuns == 2
MaxExpectedLength == 13

Red == <<0, 255, 255, 255>>
Palette == {Red, <<0, 255, 255, 0>>, <<1, 255, 255, 255>>}

\* Lengths of a stretch of one colour, in voxels.
ShortLens == {1, 2}
LongLens == {8, MAX_RLE_RUN, MAX_RLE_RUN + 1}
ShortSegs == ShortLens \X Palette
AllSegs == (ShortLens \cup LongLens) \X Palette

SeqsUpTo(S, n) == UNION {[1..k -> S] : k \in 1..n}

Repeat(px, n) == [k \in 1..(4 * n) |-> px[((k - 1) % 4) + 1]]

RECURSIVE Expand(_)
\* The voxel bytes of a sequence of <<length, colour>> stretches.
Expand(segs) ==
    IF segs = <<>> THEN <<>>
    ELSE Repeat(Head(segs)[2], Head(segs)[1]) \o Expand(Tail(segs))

\* Voxel streams: up to MaxSegs short stretches, one or two stretches of any
\* length, the empty stream, and streams that end inside a voxel.
RawInputs ==
    {Expand(ss) : ss \in SeqsUpTo(ShortSegs, MaxSegs)}
        \cup {Expand(<<s>>) : s \in AllSegs}
        \cup {Expand(<<s, t>>) : s \in AllSegs, t \in AllSegs}
        \cup {<<>>}
        \cup {SubSeq(Expand(<<<<2, c>>>>), 1, n) : c \in Palette, n \in {1, 6, 7}}

\* Compressed streams not made by compressRLE: runs with any count byte,
\* the last run possibly cut short.
RunCounts == {0, 1, 2, 3}
Runs == {<<n>> \o c : n \in RunCounts, c \in {Red, <<1, 255, 255, 255>>}}

RECURSIVE Flatten(_)
Flatten(ss) == IF ss = <<>> THEN <<>> ELSE Head(ss) \o Flatten(Tail(ss))

CraftedStreams ==
    {SubSeq(Flatten(rs), 1, 5 * Len(rs) - cut) :
        rs \in SeqsUpTo(Runs, MaxRuns), cut \in 0..4}

ExpectedChoices(raw) ==
    (0..MaxExpectedLength)
        \cup {n \in {Len(raw) - 4, Len(raw), Len(raw) + 4} : n >= 0}

-----------------------------------------------------------------------------
(* Values of the variables a specification does not use *)

RleIdle ==
    /\ voxelData = <<>>
    /\ compressedData = <<>>
    /\ expectedLength = 0
    /\ decompressed = <<>>

HeaderIdle ==
    /\ options = <<>>
    /\ headerBytes = <<>>
    /\ header = <<>>

FileIdle ==
    /\ original = <<>>
    /\ previous = <<>>
    /\ buffer = <<>>
    /\ calls = <<>>
    /\ mark = 0

PlayerIdle ==
    /\ player = <<>>
    /\ now = 0
    /\ pending = 0
    /\ toRun = 0
    /\ rendered = <<>>
    /\ tick = <<>>
    /\ playback = <<>>

CameraIdle ==
    /\ mouse = <<>>
    /\ touch = <<>>

RenderIdle ==
    /\ drawn = <<>>

PixelIdle ==
    /\ hsba = <<>>
    /\ pixel = <<>>
    /\ decoded = <<>>
    /\ prior = <<>>

-----------------------------------------------------------------------------
(* SpecRLE: compressRLE, then decompressRLE, on drawn inputs *)

InitRLE ==
    /\ console = <<>>
    /\ thrown = NoError
    /\ expectedLength = 0
    /\ decompressed = <<>>
    /\ HeaderIdle
    /\ FileIdle
    /\ PlayerIdle
    /\ CameraIdle
    /\ RenderIdle
    /\ PixelIdle
    /\ \/ /\ pc = "raw"
          /\ voxelData \in RawInputs
          /\ compressedData = <<>>
       \/ /\ pc = "crafted"
          /\ voxelData = <<>>
          /\ compressedData \in CraftedStreams

CallCompressRLE ==
    /\ pc = "raw"
    /\ LET r == compressRLE(voxelData)
       IN  /\ thrown' = r.thrown
           /\ console' = console \o r.warn
           /\ compressedData' = r.ret
           /\ pc' = IF r.thrown = NoError THEN "compressed" ELSE "threw"
    /\ UNCHANGED <<voxelData, expectedLength, decompressed, headerVars, fileVars,
                   playerVars, cameraVars,
                   renderVars, pixelVars>>

CallDecompressRLE ==
    /\ pc \in {"compressed", "crafted"}
    /\ \E e \in ExpectedChoices(voxelData) :
          LET r == decompressRLE(compressedData, e)
          IN  /\ expectedLength' = e
              /\ thrown' = r.thrown
              /\ console' = console \o r.warn
              /\ decompressed' = r.ret
              /\ pc' = "decompressed"
    /\ UNCHANGED <<voxelData, compressedData, headerVars, fileVars, playerVars,
                   cameraVars,
                   renderVars, pixelVars>>

NextRLE == CallCompressRLE \/ CallDecompressRLE

SpecRLE == InitRLE /\ [][NextRLE]_vars

-----------------------------------------------------------------------------
(* SpecHeader: parseHologlyphHeader on built headers and on drawn bytes *)

MaxCut == 2
MaxExtra == 1

\* 2^32 - 1, 2^31 and 2^32 + 1 as Numbers of a 32-bit field
U32Max == <<65535, 65535>>
U32TopBit == <<32768, 0>>
U32Over == <<65536, 1>>

OptionSets ==
    [width : {1, 255, 256},
     height : {1, 2},
     depth : {1, 255},
     frameCount : {Num(1), Num(258), U32Max},
     frameDurationMs : {Num(0), Num(100), U32TopBit},
     loop : BOOLEAN,
     loopStartFrame : {Num(0), Num(196609), U32Max},
     bytesPerVoxel : {4, 255},
     colorModel : {HSBA_255_100, 255},
     compressionType : {COMPRESSION_NONE, COMPRESSION_RLE, 255}]
        \cup {<<>>}
        \cup {[n \in {"frameCount"} |-> v] : v \in {Num(0), Num(7), U32Over}}
        \cup {[n \in {"width"} |-> v] : v \in {0, 16, 300}}

\* new Uint8Array(n) with as much of u8 as fits
Resize(u8, n) == [k \in 1..n |-> IF k <= Len(u8) THEN u8[k] ELSE 0]

\* Byte buffers: a default header cut or extended, with one byte set to any
\* of a few values.
ByteSamples == {0, 1, 2, 72, 255}
RawHeaders ==
    {SetU8(Resize(createHologlyphHeader(<<>>), t[1]), t[2], t[3]) :
        t \in {u \in ((HeaderSize - MaxCut)..(HeaderSize + MaxExtra))
                        \X (0..(HeaderSize - 1)) \X ByteSamples : u[2] < u[1]}}
        \cup {Resize(createHologlyphHeader(<<>>), n) : n \in 0..HeaderSize}

InitHeader ==
    /\ console = <<>>
    /\ thrown = NoError
    /\ header = <<>>
    /\ RleIdle
    /\ FileIdle
    /\ PlayerIdle
    /\ CameraIdle
    /\ RenderIdle
    /\ PixelIdle
    /\ \/ /\ pc = "options"
          /\ options \in OptionSets
          /\ headerBytes = <<>>
       \/ /\ pc = "bytes"
          /\ options = <<>>
          /\ headerBytes \in RawHeaders

CallCreateHeader ==
    /\ pc = "options"
    /\ headerBytes' = createHologlyphHeader(options)
    /\ pc' = "built"
    /\ UNCHANGED <<console, thrown, options, header, rleVars, fileVars,
                   playerVars, cameraVars,
                   renderVars, pixelVars>>

CallParseHeader ==
    /\ pc \in {"built", "bytes"}
    /\ LET r == parseHologlyphHeader(headerBytes)
       IN  /\ header' = r.ret
           /\ thrown' = r.thrown
           /\ console' = console \o r.warn
    /\ pc' = IF pc = "built" THEN "roundtrip" ELSE "parsed"
    /\ UNCHANGED <<options, headerBytes, rleVars, fileVars, playerVars,
                   cameraVars,
                   renderVars, pixelVars>>

NextHeader == CallCreateHeader \/ CallParseHeader

SpecHeader == InitHeader /\ [][NextHeader]_vars

-----------------------------------------------------------------------------
(* SpecFile: compressGlyfFile and decompressGlyfFile on drawn .glyf buffers *)

MaxCalls == 2
MaxWidth == 2
MaxFrames == 2

\* Header bytes createHologlyphHeader never writes, as <<version, headerSize,
\* flags, byte 20>>: what the library makes, and one field changed at a time.
HeaderVariants ==
    {<<1, 28, 0, 0>>, <<1, 28, 1, 0>>, <<2, 28, 1, 0>>, <<1, 32, 1, 0>>,
     <<1, 28, 3, 0>>, <<1, 28, 1, 9>>}

Payloads(n) ==
    {Expand(<<<<k, Red>>, <<n - k, c>>>>) :
        k \in {0, 1, n - 1}, c \in {Red, <<0, 255, 255, 0>>}}
        \cup {SubSeq(Repeat(Red, n), 1, 4 * n - 1), Repeat(Red, n + 1)}

GlyfBuffers ==
    UNION {
        {SetU8(SetU8(SetU8(SetU8(SetU8(
             createHologlyphHeader(
                 [width |-> w, height |-> h, depth |-> d,
                  frameCount |-> Num(f), loopStartFrame |-> Num(f - 1)]),
             4, hv[1]), 5, hv[2]), 6, hv[3]), 20, hv[4]), 23, ct) \o p :
            p \in Payloads(w * h * d * f)} :
        w \in 1..MaxWidth, h \in {1, 2}, d \in {1, 2}, f \in 1..MaxFrames,
        hv \in HeaderVariants, ct \in {0, 1, 2}}
        \cup {<<>>, SubSeq(createHologlyphHeader(<<>>), 1, 27),
              SetU8(createHologlyphHeader(<<>>), 0, 0)}

InitFile ==
    /\ pc = "file"
    /\ console = <<>>
    /\ thrown = NoError
    /\ RleIdle
    /\ HeaderIdle
    /\ PlayerIdle
    /\ CameraIdle
    /\ RenderIdle
    /\ PixelIdle
    /\ original \in GlyfBuffers
    /\ previous = <<>>
    /\ buffer = original
    /\ calls = <<>>
    /\ mark = 0

CallFile(name, r) ==
    /\ previous' = buffer
    /\ buffer' = r.ret
    /\ thrown' = r.thrown
    /\ mark' = Len(console)
    /\ console' = console \o r.warn
    /\ calls' = Append(calls, name)
    /\ UNCHANGED <<pc, original, rleVars, headerVars, playerVars, cameraVars,
                   renderVars, pixelVars>>

CallCompressGlyfFile ==
    /\ pc = "file"
    /\ thrown = NoError
    /\ Len(calls) < MaxCalls
    /\ CallFile("compressGlyfFile", compressGlyfFile(buffer))

CallDecompressGlyfFile ==
    /\ pc = "file"
    /\ thrown = NoError
    /\ Len(calls) < MaxCalls
    /\ CallFile("decompressGlyfFile", decompressGlyfFile(buffer))

NextFile == CallCompressGlyfFile \/ CallDecompressGlyfFile

SpecFile == InitFile /\ [][NextFile]_vars

-----------------------------------------------------------------------------
(* SpecCodec: a caller that does either, the run-length calls of SpecRLE on *)
(* their inputs or the whole-file calls of SpecFile on theirs.              *)

InitCodec == InitRLE \/ InitFile

NextCodec == NextRLE \/ NextFile

SpecCodec == InitCodec /\ [][NextCodec]_vars

-----------------------------------------------------------------------------
(* Claims about the run-length codec, checked under SpecRLE *)

IsVoxelStream(data) == Len(data) > 0 /\ Len(data) % 4 = 0

\* The count bytes of the runs of a compressed stream, added up from pos on.
RECURSIVE SumCounts(_, _)
SumCounts(stream, pos) ==
    IF pos < Len(stream) THEN stream[pos + 1] + SumCounts(stream, pos + 5) ELSE 0

RecordStarts(stream) == {p \in 0..(Len(stream) - 1) : p % 5 = 0}

\* The records of a stream of whole records, as <<count, colour>> stretches.
RecordsOf(stream) ==
    [k \in 1..(Len(stream) \div 5) |->
        <<stream[5 * k - 4], SubSeq(stream, 5 * k - 3, 5 * k)>>]

\* Every voxel of data equals its first voxel.
OneColour(data) == \A k \in 1..Len(data) : data[k] = data[((k - 1) % 4) + 1]

\* C1: for every byte sequence x whose length is a positive multiple of 4,
\* decompressRLE(compressRLE(x), length(x)) equals x byte for byte.
C1_RleRoundTrip ==
    (/\ pc = "decompressed"
     /\ IsVoxelStream(voxelData)
     /\ expectedLength = Len(voxelData))
        => (thrown = NoError /\ decompressed = voxelData)

\* A round trip of 512 voxels, whose runs of one colour exceed MAX_RLE_RUN.
C1_Witness ==
    /\ pc = "decompressed"
    /\ Len(voxelData) = 4 * 512
    /\ expectedLength = Len(voxelData)
    /\ Len(compressedData) > 5
    /\ decompressed = voxelData

\* C5: for an input whose length is a positive multiple of 4 the output of
\* compressRLE is a sequence of 5-byte records [count,H,S,B,A], every count in
\* 1..255, the counts adding up to length/4; N voxels of one colour alone give
\* ceil(N/255) records of that colour, and 8 pure-red voxels give the single
\* record [8,0,255,255,255].  The records, expanded in order, are the input,
\* and a record is followed by one of its own colour only when its count is
\* 255.
C5_RunRecords ==
    (pc \in {"compressed", "decompressed"} /\ IsVoxelStream(voxelData))
        => /\ Len(compressedData) % 5 = 0
           /\ \A p \in RecordStarts(compressedData) :
                 compressedData[p + 1] \in 1..MAX_RLE_RUN
           /\ SumCounts(compressedData, 0) = Len(voxelData) \div 4
           /\ Expand(RecordsOf(compressedData)) = voxelData
           /\ \A p \in RecordStarts(compressedData) :
                 (/\ p + 5 < Len(compressedData)
                  /\ SubSeq(compressedData, p + 2, p + 5)
                         = SubSeq(compressedData, p + 7, p + 10))
                    => compressedData[p + 1] = MAX_RLE_RUN
           /\ OneColour(voxelData) =>
                 /\ Len(compressedData) \div 5
                        = ((Len(voxelData) \div 4) + 254) \div 255
                 /\ \A p \in RecordStarts(compressedData) :
                       SubSeq(compressedData, p + 2, p + 5) = SubSeq(voxelData, 1, 4)
           /\ voxelData = Repeat(Red, 8) => compressedData = <<8, 0, 255, 255, 255>>

\* 511 voxels of one colour compressed to three records.
C5_Witness ==
    /\ pc = "compressed"
    /\ Len(voxelData) = 4 * 511
    /\ OneColour(voxelData)
    /\ Len(compressedData) = 15
    /\ compressedData[1] = 255 /\ compressedData[6] = 255 /\ compressedData[11] = 1

\* C6: whenever the compressed input is exhausted before expectedLength bytes
\* have been expanded, decompressRLE reports the mismatch (console.warn).
C6_ShortReported ==
    (pc = "decompressed" /\ 4 * SumCounts(compressedData, 0) < expectedLength)
        => console = <<MismatchWarning>>

\* Two runs that expand to fewer bytes than expected, and the warning.
C6_Witness ==
    /\ pc = "decompressed"
    /\ Len(compressedData) = 10
    /\ SumCounts(compressedData, 0) > 0
    /\ 4 * SumCounts(compressedData, 0) < expectedLength
    /\ console = <<MismatchWarning>>

\* C7: decompressRLE reports a mismatch whenever the counts of the supplied
\* runs expand to more than expectedLength bytes.
C7_OvershootReported ==
    (pc = "decompressed" /\ 4 * SumCounts(compressedData, 0) > expectedLength)
        => console = <<MismatchWarning>>

-----------------------------------------------------------------------------
(* Claims about the header, checked under SpecHeader *)

IsU32(w) == w[1] \in 0..65535 /\ w[2] \in 0..65535

\* The supplied options are within the ranges of their header fields.
ValidOptions(o) ==
    /\ \A f \in DOMAIN o \cap {"width", "height", "depth"} : o[f] \in 1..255
    /\ \A f \in DOMAIN o \cap {"bytesPerVoxel", "colorModel", "compressionType"} :
          o[f] \in 0..255
    /\ \A f \in DOMAIN o \cap {"frameCount", "frameDurationMs", "loopStartFrame"} :
          IsU32(o[f])
    /\ \A f \in DOMAIN o \cap {"frameCount"} : o[f] # Num(0)
    /\ \A f \in DOMAIN o \cap {"loop"} : o[f] \in BOOLEAN

\* C3: for options within their valid ranges,
\* parseHologlyphHeader(createHologlyphHeader(opts)) returns the supplied value
\* of every field, with version 1, headerSize 28 and
\* frameSizeBytes = width*height*depth*bytesPerVoxel.
C3_HeaderRoundTrip ==
    (pc = "roundtrip" /\ ValidOptions(options))
        => /\ thrown = NoError
           /\ \A f \in DOMAIN options : header[f] = options[f]
           /\ header.version = 1
           /\ header.headerSize = 28
           /\ header.frameSizeBytes =
                 Opt(options, "width", 32) * Opt(options, "height", 32)
                     * Opt(options, "depth", 32) * Opt(options, "bytesPerVoxel", 4)

\* All ten options supplied, at the upper ends of their ranges.
C3_Witness ==
    /\ pc = "roundtrip"
    /\ ValidOptions(options)
    /\ Cardinality(DOMAIN options) = 10
    /\ options.width = 255
    /\ options.compressionType = 255
    /\ options.frameCount = U32Max
    /\ options.frameDurationMs = U32TopBit
    /\ options.loopStartFrame = U32Max
    /\ header.loopStartFrame = U32Max

\* C4: parseHologlyphHeader fails exactly when the input has fewer than 28
\* bytes or its first four bytes are not "HGLY"; otherwise it succeeds whatever
\* the other bytes are, and returns the version byte unchanged.
C4_ParseFailsExactly ==
    pc \in {"parsed", "roundtrip"}
        => /\ (thrown # NoError) <=>
                 (Len(headerBytes) < 28 \/ SubSeq(headerBytes, 1, 4) # <<72, 71, 76, 89>>)
           /\ thrown = NoError => header.version = headerBytes[5]

\* A 29-byte buffer with version byte 255 parses.
C4_Witness ==
    /\ pc = "parsed"
    /\ Len(headerBytes) = 29
    /\ headerBytes[5] = 255
    /\ thrown = NoError
    /\ header.version = 255

-----------------------------------------------------------------------------
(* Claims about whole-file compression, checked under SpecFile *)

Parses(buf) == parseHologlyphHeader(buf).thrown = NoError
Parsed(buf) == parseHologlyphHeader(buf).ret

LastCall == IF calls = <<>> THEN "none" ELSE calls[Len(calls)]

\* The console messages of the last call
Logged == SubSeq(console, mark + 1, Len(console))

\* An uncompressed buffer whose header parses and whose payload is exactly
\* frameSizeBytes * frameCount bytes of 4-byte voxels.
WellFormed(buf) ==
    /\ Parses(buf)
    /\ Parsed(buf).compressionType = COMPRESSION_NONE
    /\ Parsed(buf).bytesPerVoxel = 4
    /\ Len(buf) - 28 = Parsed(buf).frameSizeBytes * NumValue(Parsed(buf).frameCount)

MetadataFields ==
    {"version", "headerSize", "loop", "loopStartFrame", "bytesPerVoxel", "width",
     "height", "depth", "colorModel", "frameCount", "frameDurationMs"}

\* C2: for every well-formed uncompressed buffer buf,
\* decompressGlyfFile(compressGlyfFile(buf)) is byte-identical to buf, header
\* bytes included.
C2_FileRoundTrip ==
    (calls = <<"compressGlyfFile", "decompressGlyfFile">> /\ WellFormed(original))
        => (thrown = NoError /\ buffer = original)

\* C8: decompressGlyfFile fails with an error, and returns no buffer, for every
\* input whose header parses and whose compression-type byte is neither NONE
\* nor RLE.
C8_UnknownCompressionFails ==
    (/\ LastCall = "decompressGlyfFile"
     /\ Parses(previous)
     /\ previous[24] \notin {COMPRESSION_NONE, COMPRESSION_RLE})
        => (thrown = UnknownCompressionError /\ buffer = <<>>)

\* decompressGlyfFile called on a buffer with compression type 2.
C8_Witness ==
    /\ calls = <<"decompressGlyfFile">>
    /\ Parses(previous)
    /\ previous[24] = 2
    /\ Len(previous) > 28
    /\ thrown = UnknownCompressionError

\* C9: compressGlyfFile of an already compressed buffer returns the input
\* bytes unchanged and logs a warning, so that
\* compressGlyfFile(compressGlyfFile(x)) = compressGlyfFile(x) for every
\* uncompressed x.
C9_CompressedNoOp ==
    /\ (/\ LastCall = "compressGlyfFile"
        /\ Parses(previous)
        /\ Parsed(previous).compressionType # COMPRESSION_NONE)
           => /\ thrown = NoError
              /\ buffer = previous
              /\ Logged = <<AlreadyCompressedWarning>>
    /\ (/\ calls = <<"compressGlyfFile", "compressGlyfFile">>
        /\ Parsed(original).compressionType = COMPRESSION_NONE)
           => (thrown = NoError /\ buffer = previous)

\* compressGlyfFile applied twice to an uncompressed 2x2x2 buffer.
C9_Witness ==
    /\ calls = <<"compressGlyfFile", "compressGlyfFile">>
    /\ WellFormed(original)
    /\ Parsed(original).frameSizeBytes = 32
    /\ Parsed(previous).compressionType = COMPRESSION_RLE
    /\ buffer = previous
    /\ console = <<AlreadyCompressedWarning>>

\* C10: for every uncompressed input whose header parses, the header of
\* compressGlyfFile's result has every parsed field (version, headerSize, loop,
\* loopStartFrame, bytesPerVoxel, width, height, depth, colorModel, frameCount,
\* frameDurationMs) equal to the input's, and compressionType RLE.
C10_SameMetadata ==
    (/\ LastCall = "compressGlyfFile"
     /\ Parses(previous)
     /\ Parsed(previous).compressionType = COMPRESSION_NONE
     /\ thrown = NoError)
        => /\ Parses(buffer)
           /\ \A f \in MetadataFields : Parsed(buffer)[f] = Parsed(previous)[f]
           /\ Parsed(buffer).compressionType = COMPRESSION_RLE

-----------------------------------------------------------------------------

-----------------------------------------------------------------------------
(* HologlyphPlayer *)
(*                                                                         *)
(* Times are whole milliseconds.  Angles are whole micro-radians and the   *)
(* zoom level is in millionths, so that 0.005, 0.1, 0.3 and 3.0 are exact  *)
(* and pi / 2 is cut to six decimals; no sum of an initial angle or of     *)
(* pi / 2 with multiples of 0.005 falls between the cut value and pi / 2.  *)

\* const DRAG_SENSITIVITY = 0.005
DRAG_SENSITIVITY == 5000
\* const MAX_ROTATION_X = Math.PI / 2
MAX_ROTATION_X == 1570796
\* const MIN_ZOOM = 0.3, MAX_ZOOM = 3.0, ZOOM_SENSITIVITY = 0.1
MIN_ZOOM == 300000
MAX_ZOOM == 3000000
ZOOM_SENSITIVITY == 100000
\* the defaults initialRotationX = 0.3, initialRotationY = 0.6; zoomLevel = 1.0
InitialRotationX == 300000
InitialRotationY == 600000
InitialZoomLevel == 1000000

\* Math.min, Math.max
Min(a, b) == IF a < b THEN a ELSE b
Max(a, b) == IF a > b THEN a ELSE b

\* clamp(v, min, max)
clamp(v, min, max) == Min(Max(v, min), max)

\* Math.round(n / d) for n >= 0, d > 0: the nearest integer, a half going up.
\* The quotients the code rounds, p / 100 * 255 for a whole p in 0..100 and
\* b / 255 * 100 for a byte b, round alike in IEEE doubles and exactly.
RoundDiv(n, d) == (2 * n + d) \div (2 * d)

\* Number(v) || 0 for a whole number or undefined
NumberOr0(v) == IF v = Undefined THEN 0 ELSE v

\* percentToByte that scales to 256 steps
percentToByte256(percent) ==
    RoundDiv(clamp(NumberOr0(percent), 0, 100) * 256, 100)

percentToByte(percent) ==
    RoundDiv(clamp(NumberOr0(percent), 0, 100) * 255, 100)

byteToPercent(byte) ==
    RoundDiv(clamp(NumberOr0(byte), 0, 255) * 100, 255)

\* HSBAUtil.encodePixel of an object { h, s, b, a } of whole numbers
encodePixel(input) ==
    ToUint8Array(<<clamp(NumberOr0(input.h), 0, 255), percentToByte(input.s),
                   percentToByte(input.b), percentToByte(input.a)>>)

\* HSBAUtil.decodePixel; bytes may be shorter than 4
decodePixel(bytes) ==
    [h |-> clamp(NumberOr0(At(bytes, 0)), 0, 255),
     s |-> byteToPercent(At(bytes, 1)),
     b |-> byteToPercent(At(bytes, 2)),
     a |-> byteToPercent(At(bytes, 3))]

\* The instance the constructor leaves behind, before autoPlay.  o.data is a
\* byte array, o.dataGenerator says whether a generator was passed.
constructor(o) ==
    LET tempHeader == parseHologlyphHeader(o.data)
        rawData == IF tempHeader.thrown # NoError THEN Throw(tempHeader.thrown)
                   ELSE IF tempHeader.ret.compressionType # COMPRESSION_NONE
                   THEN decompressGlyfFile(o.data)
                   ELSE Return(o.data)
        parsed == parseHologlyphHeader(rawData.ret)
        hdr == parsed.ret
    IN  IF rawData.thrown # NoError THEN Throw(rawData.thrown)
        ELSE IF parsed.thrown # NoError THEN Throw(parsed.thrown)
        ELSE [ret |->
                 [useWebGL |-> o.useWebGL,
                  _u8 |-> rawData.ret,
                  header |-> hdr,
                  width |-> hdr.width,
                  height |-> hdr.height,
                  depth |-> hdr.depth,
                  frameCount |-> NumValue(hdr.frameCount),
                  frameSizeBytes |-> hdr.frameSizeBytes,
                  dataOffset |-> hdr.dataOffset,
                  frameDurationMs |-> NumValue(hdr.frameDurationMs),
                  loop |-> hdr.loop,
                  loopStartFrame |-> NumValue(hdr.loopStartFrame),
                  bytesPerVoxel |-> hdr.bytesPerVoxel,
                  currentFrame |-> 0,
                  _playing |-> FALSE,
                  _lastTs |-> 0,
                  _accum |-> 0,
                  dataGenerator |-> o.dataGenerator,
                  viewRotationX |-> o.initialRotationX,
                  viewRotationY |-> o.initialRotationY,
                  zoomLevel |-> InitialZoomLevel,
                  _dragHandlers |-> o.orbitalDrag,
                  _zoomHandlers |-> o.useWebGL],
              thrown |-> NoError,
              warn |-> rawData.warn]

\* play() past its already-playing test; the requestAnimationFrame call is
\* counted in pending by the caller.
play(self) == [self EXCEPT !._playing = TRUE]

\* pause() that also drops the accumulated time
pauseAndReset(self) == [self EXCEPT !._playing = FALSE, !._accum = 0]

pause(self) == [self EXCEPT !._playing = FALSE]

\* stop() that rewinds to the loop start
stopAtLoopStart(self) ==
    [pause(self) EXCEPT !.currentFrame = Min(self.loopStartFrame, self.frameCount - 1)]

\* stop() up to its render() call
stop(self) == [pause(self) EXCEPT !.currentFrame = 0]

\* What render() draws: the frame _getFrameBytes slices out
render(self) == <<self.currentFrame>>

\* _getFrameBytes() that counts the frames from the start of the buffer
getFrameBytesNoHeader(self) ==
    LET offset == self.currentFrame * self.frameSizeBytes
    IN  Slice(self._u8, offset, offset + self.frameSizeBytes)

\* this._u8.subarray(offset, offset + this.frameSizeBytes)
_getFrameBytes(self) ==
    LET offset == self.dataOffset + self.currentFrame * self.frameSizeBytes
    IN  Slice(self._u8, offset, offset + self.frameSizeBytes)

\* The test of the render loops that tests the alpha only
SkippedAlphaOnly(color) == color.a = 0

\* if (a === 0 || b === 0) of the render loops, on the decoded colour
Skipped(color) == color.a = 0 \/ color.b = 0

\* What one pass of the render loops hands to the canvas or to WebGL for a
\* cell that is not skipped.  position is (x - width / 2, y - height / 2,
\* z - depth / 2) in halves: the translation of the model matrix in
\* _renderWebGL and (dx, dy, dz) in _render2D, which fills the square at
\* (cx + (dx - dz * 0.5) * voxelSize, cy + (dy + dz * 0.5) * voxelSize),
\* kept in screen as quarters of voxelSize from the centre of the canvas.
Cube(self, webgl, index, base, px, x, y, z) ==
    LET dx == 2 * x - self.width
        dy == 2 * y - self.height
        dz == 2 * z - self.depth
    IN  [index |-> index, base |-> base, px |-> px, cell |-> <<x, y, z>>,
         color |-> decodePixel(px),
         position |-> <<dx, dy, dz>>,
         screen |-> IF webgl THEN <<>> ELSE <<2 * dx - dz, 2 * dy + dz>>]

\* The three nested for loops of _render2D and of _renderWebGL, from the pass
\* for cell (x, y, z) on; st holds the running index and the cubes emitted
RECURSIVE VoxelLoop(_, _, _, _, _, _, _)
VoxelLoop(self, webgl, frame, z, y, x, st) ==
    IF z >= self.depth THEN st.out
    ELSE IF y >= self.height THEN VoxelLoop(self, webgl, frame, z + 1, 0, 0, st)
    ELSE IF x >= self.width THEN VoxelLoop(self, webgl, frame, z, y + 1, 0, st)
    ELSE LET base == st.index * self.bytesPerVoxel
             px == Slice(frame, base, base + 4)
         IN  IF Skipped(decodePixel(px))
             THEN VoxelLoop(self, webgl, frame, z, y, x + 1,
                            [st EXCEPT !.index = @ + 1])
             ELSE VoxelLoop(self, webgl, frame, z, y, x + 1,
                            [index |-> st.index + 1,
                             out |-> Append(st.out,
                                            Cube(self, webgl, st.index, base,
                                                 px, x, y, z))])

\* The fillRect calls of _render2D, in order
_render2D(self) ==
    VoxelLoop(self, FALSE, _getFrameBytes(self), 0, 0, 0,
              [index |-> 0, out |-> <<>>])

\* The drawElements calls of _renderWebGL, in order
_renderWebGL(self) ==
    VoxelLoop(self, TRUE, _getFrameBytes(self), 0, 0, 0,
              [index |-> 0, out |-> <<>>])

\* The cubes render() emits
Emitted(self) == IF self.useWebGL THEN _renderWebGL(self) ELSE _render2D(self)

\* _advanceFrame() that wraps to the loop start without the Math.min
advanceFrameNoMin(self) ==
    IF self.currentFrame + 1 < self.frameCount
    THEN [self EXCEPT !.currentFrame = @ + 1]
    ELSE IF self.loop
    THEN [self EXCEPT !.currentFrame = self.loopStartFrame]
    ELSE pause(self)

\* _advanceFrame() that loops back to frame 0 instead of the loop start
advanceFrameToZero(self) ==
    IF self.currentFrame + 1 < self.frameCount
    THEN [self EXCEPT !.currentFrame = @ + 1]
    ELSE IF self.loop
    THEN [self EXCEPT !.currentFrame = 0]
    ELSE pause(self)

\* _advanceFrame() that stays playing at the end of non-looping playback
advanceFrameNoPause(self) ==
    IF self.currentFrame + 1 < self.frameCount
    THEN [self EXCEPT !.currentFrame = @ + 1]
    ELSE IF self.loop
    THEN [self EXCEPT !.currentFrame = Min(self.loopStartFrame, self.frameCount - 1)]
    ELSE self

\* _advanceFrame() that wraps to frame 0 when playback does not loop
advanceFrameWrap(self) ==
    IF self.currentFrame + 1 < self.frameCount
    THEN [self EXCEPT !.currentFrame = @ + 1]
    ELSE IF self.loop
    THEN [self EXCEPT !.currentFrame = Min(self.loopStartFrame, self.frameCount - 1)]
    ELSE [pause(self) EXCEPT !.currentFrame = 0]

_advanceFrame(self) ==
    IF self.currentFrame + 1 < self.frameCount
    THEN [self EXCEPT !.currentFrame = @ + 1]
    ELSE IF self.loop
    THEN [self EXCEPT !.currentFrame = Min(self.loopStartFrame, self.frameCount - 1)]
    ELSE pause(self)

\* const delta = ts - (this._lastTs || ts)
Delta(self, ts) == ts - (IF self._lastTs # 0 THEN self._lastTs ELSE ts)

\* _loop(ts) that replaces the accumulated time by delta
LoopAccumulateReplace(self, ts) ==
    [self EXCEPT !._lastTs = ts, !._accum = Delta(self, ts)]

\* _loop(ts) from its playing test to the head of the while loop
LoopAccumulate(self, ts) ==
    [self EXCEPT !._lastTs = ts, !._accum = @ + Delta(self, ts)]

\* One pass of the while loop of _loop
LoopBody(self) ==
    _advanceFrame([self EXCEPT !._accum = @ - self.frameDurationMs])

\* The clamp of onMouseMove
ClampRotationX(v) == Max(-MAX_ROTATION_X, Min(MAX_ROTATION_X, v))

\* onMouseMove that clamps before it adds
DragClampFirst(self, deltaX, deltaY) ==
    [self EXCEPT
        !.viewRotationY = @ - deltaX * DRAG_SENSITIVITY,
        !.viewRotationX = ClampRotationX(@) + deltaY * DRAG_SENSITIVITY]

\* What onMouseMove does to the rotations while dragging
Drag(self, deltaX, deltaY) ==
    [self EXCEPT
        !.viewRotationY = @ - deltaX * DRAG_SENSITIVITY,
        !.viewRotationX = ClampRotationX(@ + deltaY * DRAG_SENSITIVITY)]

\* _reloadData() when the generator returns newData: the instance it leaves
\* (drawn says whether it called render()), or the Error of the parser with
\* the buffer already replaced.
_reloadData(self, newData) ==
    LET u8 == ToUint8Array(newData)
        parsed == parseHologlyphHeader(u8)
    IN  IF parsed.thrown # NoError
        THEN [ret |-> [self EXCEPT !._u8 = u8], thrown |-> parsed.thrown,
              drawn |-> FALSE]
        ELSE [ret |-> [self EXCEPT
                          !._u8 = u8,
                          !.header = parsed.ret,
                          !.currentFrame =
                              Min(self.currentFrame,
                                  NumValue(parsed.ret.frameCount) - 1)],
              thrown |-> NoError,
              drawn |-> ~self._playing]

\* The clamp of onWheel and onTouchMove
ClampZoomAbove(v) == Min(MAX_ZOOM, v)

ClampZoom(v) == Max(MIN_ZOOM, Min(MAX_ZOOM, v))

\* onWheel: const delta = e.deltaY > 0 ? 1 : -1, and the new zoom level
onWheel(self, deltaY) ==
    LET delta == IF deltaY > 0 THEN 1 ELSE -1
    IN  [self EXCEPT !.zoomLevel = ClampZoom(@ + delta * ZOOM_SENSITIVITY)]

\* onTouchMove with two touches: touchStartZoom * (currentDistance /
\* touchStartDistance), cut to a millionth; a start distance of 0 makes the
\* scale Infinity, which the clamp takes to MAX_ZOOM.
onTouchMove(self, t, currentDistance) ==
    [self EXCEPT !.zoomLevel =
        IF t.touchStartDistance = 0 THEN MAX_ZOOM
        ELSE ClampZoom((t.touchStartZoom * currentDistance)
                           \div t.touchStartDistance)]

-----------------------------------------------------------------------------
(* SpecPlayer: play(), pause(), stop() and the animation frames of a       *)
(* player constructed on a drawn file.                                     *)
(*                                                                         *)
(* The browser runs, in one animation frame, every callback requested      *)
(* since the previous one, each with the frame's timestamp, and runs no    *)
(* other event handler in between.  _loop is taken in steps (entry, the    *)
(* test and the body of each pass of its while loop, exit) so that a loop  *)
(* that never ends is a behaviour; the steps of one invocation are         *)
(* consecutive.                                                            *)

MaxFrameCount == 3
MaxDuration == 2
MaxStep == 3
MaxTime == 10
MaxPending == 2

\* One-voxel frames; the hue of a voxel is its frame index
FramePayload(frames) ==
    [k \in 1..(4 * frames) |-> IF k % 4 = 1 THEN (k - 1) \div 4 ELSE 255]

PlayerHeaders ==
    {[width |-> 1, height |-> 1, depth |-> 1,
      frameCount |-> Num(f), frameDurationMs |-> Num(d),
      loop |-> l, loopStartFrame |-> Num(s)] :
        f \in 0..MaxFrameCount, d \in 0..MaxDuration, l \in BOOLEAN,
        s \in 0..MaxFrameCount}

PlayerFiles ==
    LET plain == {createHologlyphHeader(h) \o FramePayload(NumValue(h.frameCount)) :
                      h \in PlayerHeaders}
    IN  plain \cup {compressGlyfFile(f).ret : f \in plain}

PlayerOptions ==
    {[data |-> f, dataGenerator |-> FALSE, autoPlay |-> a,
      orbitalDrag |-> FALSE, useWebGL |-> FALSE,
      initialRotationX |-> InitialRotationX,
      initialRotationY |-> InitialRotationY] :
        f \in PlayerFiles, a \in BOOLEAN}

\* The history kept since playback last started: whether it started at
\* frame 0 with no accumulated time and has seen only ticks since, the
\* elapsed time those ticks received, whether stop() was the last call, and
\* the time of the play() that started it as long as no tick has followed
\* (0 otherwise; the clock starts at 1).
Started(self) ==
    [fromZero |-> self.currentFrame = 0 /\ self._accum = 0,
     elapsed |-> 0,
     stopped |-> FALSE,
     resumedAt |-> now]

Interrupted(isStop) ==
    [fromZero |-> FALSE, elapsed |-> 0, stopped |-> isStop, resumedAt |-> 0]

NoTick == [a |-> 0, e |-> 0, advances |-> 0]

\* The state new HologlyphPlayer(o) leaves, closures of the handlers included
Constructed(o) ==
    LET made == constructor(o)
    IN  /\ pc = "idle"
        /\ thrown = made.thrown
        /\ made.thrown = NoError
        /\ console = made.warn
        /\ RleIdle
        /\ HeaderIdle
        /\ FileIdle
        /\ RenderIdle
        /\ PixelIdle
        /\ now = 1
        /\ toRun = 0
        /\ rendered = <<>>
        /\ tick = NoTick
        /\ player = IF o.autoPlay THEN play(made.ret) ELSE made.ret
        /\ pending = IF o.autoPlay THEN 1 ELSE 0
        /\ playback = IF o.autoPlay THEN Started(made.ret)
                      ELSE Interrupted(FALSE)
        /\ mouse = IF o.orbitalDrag
                   THEN [isDragging |-> FALSE, lastMouseX |-> 0,
                         lastMouseY |-> 0]
                   ELSE <<>>
        /\ touch = IF o.useWebGL
                   THEN [touchStartDistance |-> 0,
                         touchStartZoom |-> InitialZoomLevel,
                         gestures |-> 0]
                   ELSE <<>>

InitPlayer == \E o \in PlayerOptions : Constructed(o)

\* play()
Play ==
    /\ pc = "idle"
    /\ pending < MaxPending
    /\ player' = IF player._playing THEN player ELSE play(player)
    /\ pending' = IF player._playing THEN pending ELSE pending + 1
    /\ playback' = IF player._playing THEN playback ELSE Started(player)
    /\ UNCHANGED <<pc, console, thrown, now, toRun, rendered, tick, rleVars,
                   headerVars, fileVars, cameraVars,
                   renderVars, pixelVars>>

\* pause()
Pause ==
    /\ pc = "idle"
    /\ player' = pause(player)
    /\ playback' = Interrupted(playback.stopped)
    /\ UNCHANGED <<pc, console, thrown, now, pending, toRun, rendered, tick,
                   rleVars, headerVars, fileVars, cameraVars,
                   renderVars, pixelVars>>

\* stop()
Stop ==
    /\ pc = "idle"
    /\ player' = stop(player)
    /\ rendered' = render(player')
    /\ drawn' = Emitted(player')
    /\ playback' = Interrupted(TRUE)
    /\ UNCHANGED <<pc, console, thrown, now, pending, toRun, tick, rleVars,
                   headerVars, fileVars, cameraVars, pixelVars>>

\* The browser starts an animation frame dt ms after the previous one and
\* is to run the callbacks requested since, if any
BeginFrame ==
    /\ pc = "idle"
    /\ \E dt \in 1..MaxStep :
          /\ now + dt <= MaxTime
          /\ now' = now + dt
    /\ toRun' = pending
    /\ pending' = 0
    /\ pc' = IF pending = 0 THEN "idle" ELSE "frame"
    /\ UNCHANGED <<console, thrown, player, rendered, tick, playback, rleVars,
                   headerVars, fileVars, cameraVars,
                   renderVars, pixelVars>>

\* Where the browser is once a callback has returned
AfterCallback == IF toRun = 1 THEN "idle" ELSE "frame"

\* _loop(ts) invoked on a player that is not playing: it returns at once
LoopReturn ==
    /\ pc = "frame"
    /\ ~player._playing
    /\ toRun' = toRun - 1
    /\ pc' = AfterCallback
    /\ UNCHANGED <<console, thrown, player, now, pending, rendered, tick,
                   playback, rleVars, headerVars, fileVars, cameraVars,
                   renderVars, pixelVars>>

\* _loop(ts) invoked on a playing player, up to the head of its while loop
LoopEnter ==
    /\ pc = "frame"
    /\ player._playing
    /\ player' = LoopAccumulate(player, now)
    /\ tick' = [a |-> player._accum, e |-> Delta(player, now), advances |-> 0]
    /\ playback' = IF playback.fromZero
                   THEN [playback EXCEPT !.elapsed = @ + Delta(player, now),
                                         !.resumedAt = 0]
                   ELSE [playback EXCEPT !.resumedAt = 0]
    /\ pc' = "while"
    /\ UNCHANGED <<console, thrown, now, pending, toRun, rendered, rleVars,
                   headerVars, fileVars, cameraVars,
                   renderVars, pixelVars>>

\* The test of the while loop succeeds
LoopTest ==
    /\ pc = "while"
    /\ player._accum >= player.frameDurationMs
    /\ pc' = "body"
    /\ UNCHANGED <<console, thrown, player, now, pending, toRun, rendered,
                   tick, playback, rleVars, headerVars, fileVars, cameraVars,
                   renderVars, pixelVars>>

\* The body of the while loop; the history counter stops at MaxTime + 1,
\* more than any tick with a positive frame duration can advance.
LoopIterate ==
    /\ pc = "body"
    /\ player' = LoopBody(player)
    /\ tick' = [tick EXCEPT !.advances = Min(@ + 1, MaxTime + 1)]
    /\ pc' = "while"
    /\ UNCHANGED <<console, thrown, now, pending, toRun, rendered, playback,
                   rleVars, headerVars, fileVars, cameraVars,
                   renderVars, pixelVars>>

\* The while loop ends: render() and requestAnimationFrame(this._loop)
LoopExit ==
    /\ pc = "while"
    /\ ~(player._accum >= player.frameDurationMs)
    /\ rendered' = render(player)
    /\ drawn' = Emitted(player)
    /\ pending' = pending + 1
    /\ toRun' = toRun - 1
    /\ pc' = AfterCallback
    /\ UNCHANGED <<console, thrown, player, now, tick, playback, rleVars,
                   headerVars, fileVars, cameraVars, pixelVars>>

NextPlayer ==
    \/ Play
    \/ Pause
    \/ Stop
    \/ BeginFrame
    \/ LoopReturn
    \/ LoopEnter
    \/ LoopTest
    \/ LoopIterate
    \/ LoopExit

SpecPlayer == InitPlayer /\ [][NextPlayer]_vars

\* The JavaScript engine runs a callback it has entered to its end
SpecPlayerFair ==
    SpecPlayer /\ WF_vars(LoopTest) /\ WF_vars(LoopIterate) /\ WF_vars(LoopExit)

-----------------------------------------------------------------------------
(* SpecDrag and SpecZoom: the mouse handlers of a player constructed with  *)
(* orbitalDrag, and the wheel and touch handlers of one constructed with   *)
(* useWebGL.  Each handler runs to its end before the next event is        *)
(* delivered.  The two groups of handlers share no state (the first reads  *)
(* and writes the rotations, the drag closure and the loaded data, the     *)
(* second the zoom level and the pinch closure), so each is explored with  *)
(* the events of the other left out.  The pointer is at one of a few       *)
(* positions, two touch points are a positive distance apart, and the data *)
(* generator returns one of a few buffers.                                 *)

MaxMouse == 2
MaxTurn == 3
MaxSpread == 2
MaxGestures == 1

\* clientX / clientY of a mouse event, in pixels
Positions == {300 * k : k \in 0..MaxMouse}

\* getTouchDistance(e.touches), in pixels
TouchDistances == {50 * k : k \in 1..MaxSpread}

\* e.deltaY of a wheel event
WheelDeltas == {-1, 0, 1}

\* initialRotationX: the default, and a rotation outside the clamp range
InitialRotations == {InitialRotationX, 2 * MAX_ROTATION_X}

CameraFile ==
    createHologlyphHeader([width |-> 1, height |-> 1, depth |-> 1,
                           frameCount |-> Num(2)]) \o FramePayload(2)

\* What the dataGenerator may return: files of one and of two frames, and a
\* buffer too short to hold a header
GeneratedFiles ==
    {createHologlyphHeader([width |-> 1, height |-> 1, depth |-> 1,
                            frameCount |-> Num(f)]) \o FramePayload(f) :
         f \in 1..2}
        \cup {<<72, 71>>}

DragOptions ==
    {[data |-> CameraFile, dataGenerator |-> g, autoPlay |-> a,
      orbitalDrag |-> TRUE, useWebGL |-> w,
      initialRotationX |-> rx, initialRotationY |-> InitialRotationY] :
        g \in BOOLEAN, a \in BOOLEAN, w \in BOOLEAN, rx \in InitialRotations}

ZoomOptions ==
    {[data |-> CameraFile, dataGenerator |-> FALSE, autoPlay |-> a,
      orbitalDrag |-> d, useWebGL |-> TRUE,
      initialRotationX |-> InitialRotationX,
      initialRotationY |-> InitialRotationY] :
        a \in BOOLEAN, d \in BOOLEAN}

InitDrag == \E o \in DragOptions : Constructed(o)

InitZoom == \E o \in ZoomOptions : Constructed(o)

cameraFrame == <<pc, console, now, pending, toRun, tick, playback, rleVars,
                 headerVars, fileVars, pixelVars>>

\* onMouseDown
MouseDown ==
    /\ player._dragHandlers
    /\ \E x \in Positions, y \in Positions :
          mouse' = [isDragging |-> TRUE, lastMouseX |-> x, lastMouseY |-> y]
    /\ UNCHANGED <<cameraFrame, thrown, player, rendered, drawn, touch>>

\* The view update that ends onMouseMove: render() with WebGL, otherwise
\* _reloadData(), which returns at once without a generator
UpdateView(turned, newData) ==
    IF turned.useWebGL
    THEN [ret |-> turned, thrown |-> NoError, drawn |-> TRUE]
    ELSE IF ~turned.dataGenerator
    THEN [ret |-> turned, thrown |-> NoError, drawn |-> FALSE]
    ELSE _reloadData(turned, newData)

\* What this.dataGenerator(...) may return where _reloadData calls it (one
\* placeholder where it is not called)
GeneratorResults(self) ==
    IF ~self.useWebGL /\ self.dataGenerator THEN GeneratedFiles ELSE {<<>>}

\* onMouseMove with the pointer at (x, y); |rotationY| is kept to MaxTurn
\* radians
MouseMoveAt(x, y) ==
    /\ player._dragHandlers
    /\ IF ~mouse.isDragging
       THEN UNCHANGED <<thrown, player, rendered, drawn, mouse>>
       ELSE LET turned == Drag(player, x - mouse.lastMouseX,
                               y - mouse.lastMouseY)
            IN  /\ turned.viewRotationY <= MaxTurn * 1000000
                /\ turned.viewRotationY >= -MaxTurn * 1000000
                /\ mouse' = [mouse EXCEPT !.lastMouseX = x, !.lastMouseY = y]
                /\ \E newData \in GeneratorResults(turned) :
                      LET view == UpdateView(turned, newData)
                      IN  /\ player' = view.ret
                          /\ thrown' = view.thrown
                          /\ rendered' = IF view.drawn THEN render(view.ret)
                                         ELSE rendered
                          /\ drawn' = IF view.drawn THEN Emitted(view.ret)
                                      ELSE drawn
    /\ UNCHANGED <<cameraFrame, touch>>

MouseMove == \E x \in Positions, y \in Positions : MouseMoveAt(x, y)

\* onMouseUp
MouseUp ==
    /\ player._dragHandlers
    /\ mouse' = [mouse EXCEPT !.isDragging = FALSE]
    /\ UNCHANGED <<cameraFrame, thrown, player, rendered, drawn, touch>>

\* onMouseLeave
MouseLeave ==
    /\ player._dragHandlers
    /\ mouse' = [mouse EXCEPT !.isDragging = FALSE]
    /\ UNCHANGED <<cameraFrame, thrown, player, rendered, drawn, touch>>

\* onWheel
Wheel ==
    /\ player._zoomHandlers
    /\ \E deltaY \in WheelDeltas : player' = onWheel(player, deltaY)
    /\ rendered' = render(player')
    /\ drawn' = Emitted(player')
    /\ UNCHANGED <<cameraFrame, thrown, mouse, touch>>

\* onTouchStart with n touches; the gestures begun are counted up to
\* MaxGestures
TouchStart ==
    /\ player._zoomHandlers
    /\ \E n \in 1..2, d \in TouchDistances :
          IF n = 2
          THEN /\ touch.gestures < MaxGestures
               /\ touch' = [touchStartDistance |-> d,
                            touchStartZoom |-> player.zoomLevel,
                            gestures |-> touch.gestures + 1]
          ELSE UNCHANGED touch
    /\ UNCHANGED <<cameraFrame, thrown, player, rendered, drawn, mouse>>

\* onTouchMove with n touches
TouchMove ==
    /\ player._zoomHandlers
    /\ \E n \in 1..2, d \in TouchDistances :
          IF n = 2
          THEN /\ player' = onTouchMove(player, touch, d)
               /\ rendered' = render(player')
               /\ drawn' = Emitted(player')
          ELSE UNCHANGED <<player, rendered, drawn>>
    /\ UNCHANGED <<cameraFrame, thrown, mouse, touch>>

NextDrag ==
    \/ MouseDown
    \/ MouseMove
    \/ MouseUp
    \/ MouseLeave

SpecDrag == InitDrag /\ [][NextDrag]_vars

NextZoom ==
    \/ Wheel
    \/ TouchStart
    \/ TouchMove

SpecZoom == InitZoom /\ [][NextZoom]_vars

-----------------------------------------------------------------------------
(* SpecReload: animation frames and horizontal drags of a 2D player with a  *)
(* data generator, constructed on a file of MaxReloadFrames one-voxel       *)
(* frames, with and without autoPlay.  A drag event is delivered between    *)
(* two callbacks, never inside one.                                         *)

MaxReloadFrames == 2

ReloadFiles ==
    {createHologlyphHeader([width |-> 1, height |-> 1, depth |-> 1,
                            frameCount |-> Num(MaxReloadFrames),
                            frameDurationMs |-> Num(d), loop |-> l])
         \o FramePayload(MaxReloadFrames) :
        d \in 1..MaxDuration, l \in BOOLEAN}

ReloadOptions ==
    {[data |-> f, dataGenerator |-> TRUE, autoPlay |-> a,
      orbitalDrag |-> TRUE, useWebGL |-> FALSE,
      initialRotationX |-> InitialRotationX,
      initialRotationY |-> InitialRotationY] :
        f \in ReloadFiles, a \in BOOLEAN}

InitReload == \E o \in ReloadOptions : Constructed(o)

\* mousedown at the left edge
ReloadMouseDown ==
    /\ pc = "idle"
    /\ MouseDown
    /\ mouse'.lastMouseX = 0
    /\ mouse'.lastMouseY = 0

\* mousemove along the top edge
ReloadMouseMove ==
    /\ pc = "idle"
    /\ \E x \in Positions : MouseMoveAt(x, 0)

ReloadMouseUp ==
    /\ pc = "idle"
    /\ MouseUp

NextReload ==
    \/ BeginFrame
    \/ LoopReturn
    \/ LoopEnter
    \/ LoopTest
    \/ LoopIterate
    \/ LoopExit
    \/ ReloadMouseDown
    \/ ReloadMouseMove
    \/ ReloadMouseUp

SpecReload == InitReload /\ [][NextReload]_vars

-----------------------------------------------------------------------------
(* SpecRender: render() on a player constructed on a drawn file, at each of *)
(* its frames, in 2D and in WebGL mode.  A file stores, for every cell of   *)
(* every frame, a voxel whose brightness and alpha bytes run through the    *)
(* pairs of SampleBytes and whose hue is the number of the voxel in the     *)
(* file; a voxel of more than 4 bytes ends in padding.                      *)

MaxDim == 2
MaxCells == 8
MaxRenderFrames == 2

SampleBytes == <<0, 1, 2, 255>>
NumKinds == Len(SampleBytes) * Len(SampleBytes)
Strides == {1, 5}
VoxelSizes == {4, 5}

\* Voxel n of a file: hue n, full saturation, brightness and alpha of kind k
VoxelOfKind(n, k, bytesPerVoxel) ==
    <<n % 256, 255, SampleBytes[(k % Len(SampleBytes)) + 1],
      SampleBytes[(k \div Len(SampleBytes)) + 1]>>
        \o [j \in 1..(bytesPerVoxel - 4) |-> 7]

RECURSIVE VoxelRun(_, _, _, _, _)
VoxelRun(n, count, shift, stride, bytesPerVoxel) ==
    IF n >= count THEN <<>>
    ELSE VoxelOfKind(n, (shift + n * stride) % NumKinds, bytesPerVoxel)
             \o VoxelRun(n + 1, count, shift, stride, bytesPerVoxel)

RenderDims ==
    {dim \in (1..MaxDim) \X (1..MaxDim) \X (1..MaxDim) :
        dim[1] * dim[2] * dim[3] <= MaxCells}

RenderFiles ==
    {createHologlyphHeader(
         [width |-> dim[1], height |-> dim[2], depth |-> dim[3],
          frameCount |-> Num(f), bytesPerVoxel |-> v])
       \o VoxelRun(0, dim[1] * dim[2] * dim[3] * f, shift, stride, v) :
        dim \in RenderDims, f \in 1..MaxRenderFrames,
        shift \in 0..(NumKinds - 1), stride \in Strides, v \in VoxelSizes}

RenderOptions ==
    {[data |-> f, dataGenerator |-> FALSE, autoPlay |-> FALSE,
      orbitalDrag |-> FALSE, useWebGL |-> w,
      initialRotationX |-> InitialRotationX,
      initialRotationY |-> InitialRotationY] :
        f \in RenderFiles, w \in BOOLEAN}

InitRender == \E o \in RenderOptions : Constructed(o)

\* player.currentFrame = f by the caller
Seek ==
    /\ \E f \in 0..(player.frameCount - 1) :
          /\ f # player.currentFrame
          /\ player' = [player EXCEPT !.currentFrame = f]
    /\ UNCHANGED <<cameraFrame, thrown, rendered, drawn, cameraVars>>

\* player.render() by the caller
Render ==
    /\ rendered' = render(player)
    /\ drawn' = Emitted(player)
    /\ UNCHANGED <<pc, console, thrown, player, now, pending, toRun, tick,
                   playback, rleVars, headerVars, fileVars, cameraVars,
                   pixelVars>>

NextRender == Seek \/ Render

SpecRender == InitRender /\ [][NextRender]_vars

-----------------------------------------------------------------------------
(* SpecPixel: the caller encodes a colour and decodes the bytes, one colour *)
(* after the other.  The saturation runs upwards through the whole          *)
(* percentages in steps of at most MaxJump, the brightness downwards, and   *)
(* the alpha through all of them in another order.                          *)

MaxJump == 3

\* clamp(..., 0, 100) of percentToByte
MaxPercent == 100

SampleHues == {-5, 0, 128, 255, 300}

Colour(h, p) ==
    [h |-> h, s |-> p, b |-> MaxPercent - p, a |-> (7 * p) % (MaxPercent + 1)]

InitPixel ==
    /\ pc = "encode"
    /\ console = <<>>
    /\ thrown = NoError
    /\ \E h \in SampleHues, p \in 0..MaxPercent : hsba = Colour(h, p)
    /\ pixel = <<>>
    /\ decoded = <<>>
    /\ prior = <<>>
    /\ RleIdle
    /\ HeaderIdle
    /\ FileIdle
    /\ PlayerIdle
    /\ CameraIdle
    /\ RenderIdle

pixelFrame == <<console, thrown, rleVars, headerVars, fileVars, playerVars,
                cameraVars, renderVars>>

CallEncodePixel ==
    /\ pc = "encode"
    /\ pixel' = encodePixel(hsba)
    /\ pc' = "decode"
    /\ UNCHANGED <<pixelFrame, hsba, decoded, prior>>

CallDecodePixel ==
    /\ pc = "decode"
    /\ decoded' = decodePixel(pixel)
    /\ pc' = "next"
    /\ UNCHANGED <<pixelFrame, hsba, pixel, prior>>

\* The caller goes on to a colour of higher saturation
NextColour ==
    /\ pc = "next"
    /\ \E q \in (hsba.s + 1)..Min(MaxPercent, hsba.s + MaxJump) :
          hsba' = Colour(hsba.h, q)
    /\ prior' = [hsba |-> hsba, decoded |-> decoded]
    /\ pixel' = <<>>
    /\ decoded' = <<>>
    /\ pc' = "encode"
    /\ UNCHANGED pixelFrame

NextPixel == CallEncodePixel \/ CallDecodePixel \/ NextColour

SpecPixel == InitPixel /\ [][NextPixel]_vars

-----------------------------------------------------------------------------
(* Claims about playback, checked under SpecPlayer and SpecPlayerFair *)

\* _loop is inside its while loop
InLoop == pc \in {"while", "body"}

\* C11: an invocation of _loop on a playing player returns: whatever the
\* frame duration of the header (0 included), the while loop it has entered
\* is left after finitely many frame advances.
C11_TickTerminates == InLoop ~> ~InLoop

\* The same for the headers whose frame duration is positive
TickTerminatesPositive ==
    (InLoop /\ player.frameDurationMs > 0) ~> ~InLoop

\* The frame a looping player that started at frame 0 shows after k advances
LoopStart(self) == Min(self.loopStartFrame, self.frameCount - 1)

FrameAfter(self, k) ==
    IF k <= self.frameCount - 1 THEN k
    ELSE LoopStart(self)
             + ((k - self.frameCount) % (self.frameCount - LoopStart(self)))

\* A tick has been completed and only ticks have happened since play()
\* found the player at frame 0 with no accumulated time
TickedFromZero == ~InLoop /\ playback.fromZero

\* C12: with loop set, frame duration D > 0 and F >= 1 frames, a playing
\* player that started at frame 0 with no accumulated time and has since
\* received ticks whose elapsed times total t is at frame k = t \div D when
\* k <= F - 1 and at L + ((k - F) mod (F - L)) otherwise, L being
\* min(loopStartFrame, F - 1), however t was split across the ticks.
C12_LoopingPosition ==
    (/\ TickedFromZero
     /\ player.loop
     /\ player.frameDurationMs > 0
     /\ player.frameCount >= 1)
        => /\ player.currentFrame
                = FrameAfter(player, playback.elapsed \div player.frameDurationMs)
           /\ player._playing

\* Three ticks or more have taken a looping player past its last frame and
\* then past it again, into a loop that starts after frame 0.
C12_Witness ==
    /\ TickedFromZero
    /\ pc = "idle"
    /\ player.loop
    /\ player.frameDurationMs > 1
    /\ player.frameCount >= 2
    /\ LoopStart(player) >= 1
    /\ playback.elapsed = (2 * player.frameCount - LoopStart(player))
                              * player.frameDurationMs
    /\ tick.e < playback.elapsed
    /\ tick.advances >= 1
    /\ player.currentFrame = LoopStart(player)

\* C13: with loop unset and a frame duration D > 0, a player that started
\* at frame 0 shows frame min(k, F - 1) after ticks of k = t \div D whole
\* durations: once k reaches F (a step past the last frame) it is paused at
\* frame F - 1, never at frame F and never back at an earlier frame, and the
\* ticks that follow leave it so; before that it is playing.
C13_NonLoopingEnd ==
    (/\ TickedFromZero
     /\ ~player.loop
     /\ player.frameDurationMs > 0
     /\ player.frameCount >= 1)
        => LET k == playback.elapsed \div player.frameDurationMs
           IN  /\ player.currentFrame = Min(k, player.frameCount - 1)
               /\ player._playing = (k < player.frameCount)

\* A non-looping player of two frames or more has been paused by a tick at
\* its last frame, and a later animation frame has called _loop again.
C13_Witness ==
    /\ TickedFromZero
    /\ pc = "idle"
    /\ ~player.loop
    /\ player.frameDurationMs > 0
    /\ player.frameCount >= 2
    /\ playback.elapsed \div player.frameDurationMs > player.frameCount
    /\ ~player._playing
    /\ player.currentFrame = player.frameCount - 1
    /\ pending = 0
    /\ now > player._lastTs

\* C14: for a header with frameCount >= 1 and any loopStartFrame, one that
\* is >= frameCount included, 0 <= currentFrame <= frameCount - 1 in every
\* state that play(), pause(), stop() and animation frames reach, the
\* states inside a running _loop included.
C14_FrameInRange ==
    player.frameCount >= 1
        => (0 <= player.currentFrame /\ player.currentFrame < player.frameCount)

\* After some pause() or stop(), a tick has taken a looping player whose
\* loopStartFrame is not below frameCount through the wrap at its last frame.
C14_Witness ==
    /\ player.loop
    /\ player.frameCount >= 2
    /\ player.loopStartFrame >= player.frameCount
    /\ ~playback.fromZero
    /\ player._playing
    /\ tick.advances >= player.frameCount
    /\ player.currentFrame = player.frameCount - 1

\* C15: one frame advance (one pass of the while loop of _loop), on a
\* header with frameCount >= 1: a current frame that is not the last becomes
\* current + 1 and the play flag is kept; the last frame with loop set
\* becomes min(loopStartFrame, frameCount - 1) and the player stays playing;
\* the last frame with loop unset is kept and the player becomes paused.
C15_AdvancePolicy ==
    [][(LoopIterate /\ player.frameCount >= 1) =>
          IF player.currentFrame # player.frameCount - 1
          THEN /\ player'.currentFrame = player.currentFrame + 1
               /\ player'._playing = player._playing
          ELSE IF player.loop
          THEN /\ player'.currentFrame
                    = Min(player.loopStartFrame, player.frameCount - 1)
               /\ player'._playing = player._playing
          ELSE /\ player'.currentFrame = player.currentFrame
               /\ ~player'._playing]_vars

\* Inside a tick, an advance at the last of several frames has just paused
\* a non-looping player.
C15_Witness ==
    /\ pc = "while"
    /\ tick.advances >= 1
    /\ player.frameCount >= 2
    /\ ~player.loop
    /\ ~player._playing
    /\ player.currentFrame = player.frameCount - 1

\* C16: with a frame duration D > 0, a tick on a playing player that finds
\* accumulated time a and receives elapsed time e >= 0 makes exactly
\* (a + e) \div D frame advances and leaves (a + e) % D accumulated; so
\* outside a running tick 0 <= accumulated time < D.
C16_TickArithmetic ==
    (~InLoop /\ player.frameDurationMs > 0)
        => /\ tick.e >= 0
           /\ tick.advances = (tick.a + tick.e) \div player.frameDurationMs
           /\ player._accum = (tick.a + tick.e) % player.frameDurationMs
           /\ 0 <= player._accum
           /\ player._accum < player.frameDurationMs

\* A delayed tick found time left over from the tick before and caught up
\* several frames at once.
C16_Witness ==
    /\ pc = "idle"
    /\ player.frameDurationMs > 1
    /\ tick.a > 0
    /\ tick.e > player.frameDurationMs
    /\ tick.advances >= 2
    /\ player._accum > 0

\* C17: pause() clears the play flag and leaves currentFrame and the
\* accumulated time as they are; and while the player is not playing, no
\* step other than stop() changes either of them: a _loop invoked then
\* returns at once.  (A _loop that was invoked while playing and has paused
\* the player at the last frame runs its while loop to the end.)
C17_PauseRetains ==
    [][/\ Pause => /\ ~player'._playing
                   /\ player'.currentFrame = player.currentFrame
                   /\ player'._accum = player._accum
       /\ (~player._playing /\ ~InLoop /\ ~Stop)
              => /\ player'.currentFrame = player.currentFrame
                 /\ player'._accum = player._accum]_vars

\* pause() has frozen a looping player past frame 0 with time accumulated,
\* and an animation frame has since called _loop.
C17_Witness ==
    /\ pc = "idle"
    /\ player.loop
    /\ ~player._playing
    /\ ~playback.stopped
    /\ player.currentFrame >= 1
    /\ player._accum > 0
    /\ pending = 0
    /\ now > player._lastTs
    /\ player._lastTs > 0

\* C18: stop(), from any state the player can be in between callbacks,
\* leaves it not playing at frame 0 and renders frame 0; from then until
\* play() is called the player stays not playing at frame 0, whatever
\* animation frames and pause() or stop() calls follow.
C18_StopResets ==
    [][/\ Stop => /\ ~player'._playing
                  /\ player'.currentFrame = 0
                  /\ rendered' = <<0>>
                  /\ playback'.stopped
       /\ playback'.stopped => /\ ~player'._playing
                               /\ player'.currentFrame = 0
       /\ (playback.stopped /\ ~Play) => playback'.stopped]_vars

\* stop() has rewound a looping player that a tick had advanced to a frame
\* past 0, and the _loop callback left over has run since.
C18_Witness ==
    /\ pc = "idle"
    /\ playback.stopped
    /\ player.loop
    /\ LoopStart(player) >= 1
    /\ tick.advances >= 1
    /\ player.currentFrame = 0
    /\ rendered = <<0>>
    /\ pending = 0
    /\ now > player._lastTs

-----------------------------------------------------------------------------
(* Claims about the camera, checked under SpecDrag and SpecZoom *)

\* C19: each mouse move of a drag, by (dx, dy) pixels since the last mouse
\* event, subtracts dx * 0.005 from viewRotationY and adds dy * 0.005 to
\* viewRotationX, then clamps viewRotationX: the result is within
\* [-pi/2, pi/2] even from an initial rotation outside that range, while
\* viewRotationY is neither clamped nor wrapped; no other mouse event
\* changes either rotation.  So viewRotationX is within [-pi/2, pi/2] after
\* any sequence of drags.
C19_DragClampsX ==
    [][IF mouse.isDragging
          /\ MouseMoveAt(mouse'.lastMouseX, mouse'.lastMouseY)
       THEN LET dx == mouse'.lastMouseX - mouse.lastMouseX
                dy == mouse'.lastMouseY - mouse.lastMouseY
                sum == player.viewRotationX + dy * DRAG_SENSITIVITY
            IN  /\ player'.viewRotationY
                      = player.viewRotationY - dx * DRAG_SENSITIVITY
                /\ player'.viewRotationX
                      = IF sum > MAX_ROTATION_X THEN MAX_ROTATION_X
                        ELSE IF sum < -MAX_ROTATION_X THEN -MAX_ROTATION_X
                        ELSE sum
                /\ player'.viewRotationX <= MAX_ROTATION_X
                /\ player'.viewRotationX >= -MAX_ROTATION_X
       ELSE /\ player'.viewRotationX = player.viewRotationX
            /\ player'.viewRotationY = player.viewRotationY]_vars

\* A drag has pushed viewRotationX down to the clamp and has turned
\* viewRotationY past -pi/2.
C19_Witness ==
    /\ mouse.isDragging
    /\ player.viewRotationX = -MAX_ROTATION_X
    /\ player.viewRotationY < -MAX_ROTATION_X
    /\ mouse.lastMouseX > 0

\* C20: 0.3 <= zoomLevel <= 3.0 in every state that wheel events (each a
\* step of +0.1 or -0.1) and pinch gestures (the zoom level at the start of
\* the gesture times a positive scale) reach from construction.
C20_ZoomInRange ==
    MIN_ZOOM <= player.zoomLevel /\ player.zoomLevel <= MAX_ZOOM

\* After a pinch that began below twice the minimum, where halving the
\* distance of the touch points scales below it, the zoom level sits at the
\* lower clamp.
C20_Witness ==
    /\ touch.gestures >= 1
    /\ touch.touchStartDistance > 0
    /\ touch.touchStartZoom % ZOOM_SENSITIVITY = 0
    /\ touch.touchStartZoom < 2 * MIN_ZOOM
    /\ player.zoomLevel = MIN_ZOOM
    /\ rendered # <<>>

-----------------------------------------------------------------------------
(* Claims about rendering, checked under SpecRender *)

\* The number of cells of the grid the player was constructed on
Cells(self) == self.width * self.height * self.depth

\* Byte c of the colour record stored for cell index i of frame f
StoredByte(self, f, i, c) ==
    At(self._u8, 28 + f * self.frameSizeBytes + i * self.bytesPerVoxel + c)

StoredBrightness(self, f, i) == StoredByte(self, f, i, 2)
StoredAlpha(self, f, i) == StoredByte(self, f, i, 3)

\* x + y * W + z * W * H
CellIndex(self, cell) ==
    cell[1] + cell[2] * self.width + cell[3] * self.width * self.height

Invisible(self, f, i) ==
    StoredAlpha(self, f, i) = 0 \/ StoredBrightness(self, f, i) = 0

\* C21: in both render paths, after render() has drawn frame f, no emitted
\* cube belongs to a cell whose stored alpha is 0 or whose stored brightness
\* is 0 (whatever its alpha), and the index of every emitted cube is the
\* index of its cell: skipped cells advance the index too.
C21_InvisibleSkipped ==
    rendered # <<>> =>
        /\ \A k \in 1..Len(drawn) :
              drawn[k].index = CellIndex(player, drawn[k].cell)
        /\ \A i \in 0..(Cells(player) - 1) :
              Invisible(player, rendered[1], i) =>
                  \A k \in 1..Len(drawn) : drawn[k].index # i

\* A frame drawn in which a cell of alpha 0 and a cell of brightness 0 with
\* full alpha were skipped and a later cell was emitted
C21_Witness ==
    /\ rendered # <<>>
    /\ \E i, j \in 0..(Cells(player) - 1) :
          /\ StoredAlpha(player, rendered[1], i) = 0
          /\ StoredBrightness(player, rendered[1], i) # 0
          /\ StoredBrightness(player, rendered[1], j) = 0
          /\ StoredAlpha(player, rendered[1], j) = 255
          /\ \E k \in 1..Len(drawn) : drawn[k].index > i /\ drawn[k].index > j

\* The 4-byte colour record of cell index i of frame f
StoredRecord(self, f, i) == [c \in 1..4 |-> StoredByte(self, f, i, c - 1)]

\* C22: after render() has drawn frame f of a W*H*D grid, every emitted cube
\* is for a cell (x, y, z) of the grid, its colour record is the one at byte
\* offset 28 + f*frameSizeBytes + (x + y*W + z*W*H)*bytesPerVoxel of the
\* loaded buffer (voxel number f*W*H*D + x + y*W + z*W*H of the file), the
\* cubes come in increasing order of that index, and the cube is placed at
\* (x - W/2, y - H/2, z - D/2), here in halves.
C22_VoxelAddressing ==
    rendered # <<>> =>
        \A k \in 1..Len(drawn) :
            LET cube == drawn[k]
                i == CellIndex(player, cube.cell)
            IN  /\ cube.cell[1] \in 0..(player.width - 1)
                /\ cube.cell[2] \in 0..(player.height - 1)
                /\ cube.cell[3] \in 0..(player.depth - 1)
                /\ cube.px = StoredRecord(player, rendered[1], i)
                /\ cube.px[1] = (rendered[1] * Cells(player) + i) % 256
                /\ cube.color = decodePixel(cube.px)
                /\ \A j \in 1..(k - 1) :
                      CellIndex(player, drawn[j].cell) < i
                /\ cube.position = <<2 * cube.cell[1] - player.width,
                                     2 * cube.cell[2] - player.height,
                                     2 * cube.cell[3] - player.depth>>

\* A later frame of a 2*2*2 grid drawn by _renderWebGL, the cube of cell
\* (1, 0, 1) after that of cell (0, 1, 0)
C22_Witness ==
    /\ rendered # <<>>
    /\ rendered[1] > 0
    /\ player.useWebGL
    /\ player.width = 2 /\ player.height = 2 /\ player.depth = 2
    /\ \E j, k \in 1..Len(drawn) :
          j < k /\ drawn[j].cell = <<0, 1, 0>> /\ drawn[k].cell = <<1, 0, 1>>

\* Cell index i is among the cubes emitted
IsEmitted(i) == \E k \in 1..Len(drawn) : drawn[k].index = i

\* C27: a voxel is left out only if its stored alpha byte or its stored
\* brightness byte is 0: after render() has drawn frame f, every cell whose
\* alpha and brightness bytes are both in 1..255 is among the emitted cubes.
C27_OnlyZeroBytesOmitted ==
    rendered # <<>> =>
        \A i \in 0..(Cells(player) - 1) :
            (/\ StoredAlpha(player, rendered[1], i) \in 1..255
             /\ StoredBrightness(player, rendered[1], i) \in 1..255)
                => IsEmitted(i)

\* Every cell whose alpha and brightness bytes are both in 2..255 is emitted
EmittedFromTwo ==
    rendered # <<>> =>
        \A i \in 0..(Cells(player) - 1) :
            (/\ StoredAlpha(player, rendered[1], i) \in 2..255
             /\ StoredBrightness(player, rendered[1], i) \in 2..255)
                => IsEmitted(i)

-----------------------------------------------------------------------------
(* Claims about the pixel codec, checked under SpecPixel *)

Within1(p, r) == r - p \in {-1, 0, 1}

\* The order of two results follows the order of the two percentages
SameOrder(p, q, rp, rq) == (p <= q => rp <= rq) /\ (q <= p => rq <= rp)

\* C23: for whole percentages 0..100 in the s, b and a of a colour, each
\* component of decodePixel(encodePixel(colour)) is within 1 of the
\* percentage, and of two colours the one with the lower percentage in a
\* component never decodes to the higher percentage in it (monotonic).
C23_Quantization ==
    pc = "next" =>
        /\ Within1(hsba.s, decoded.s)
        /\ Within1(hsba.b, decoded.b)
        /\ Within1(hsba.a, decoded.a)
        /\ prior # <<>> =>
              /\ SameOrder(prior.hsba.s, hsba.s, prior.decoded.s, decoded.s)
              /\ SameOrder(prior.hsba.b, hsba.b, prior.decoded.b, decoded.b)
              /\ SameOrder(prior.hsba.a, hsba.a, prior.decoded.a, decoded.a)

\* A second colour decoded whose saturation of 50 % is stored as 127.5
\* rounded to a byte, and whose brightness is lower than that of the colour
\* before
C23_Witness ==
    /\ pc = "next"
    /\ prior # <<>>
    /\ hsba.s = 50
    /\ pixel[2] = 128
    /\ hsba.b < prior.hsba.b
    /\ decoded.b < prior.decoded.b

-----------------------------------------------------------------------------
(* Claims about the animation-frame callbacks, checked under SpecPlayer *)

\* C24: whatever the order of play(), pause(), stop() and animation frames,
\* at most one _loop callback is requested and not yet run to its end.
C24_OneCallbackPending == pending + toRun <= 1

\* C25: time that passes while the player is paused or stopped is not
\* playback time: the first tick after a play() at time t2 adds to the
\* accumulated time no more than the time elapsed since t2.
C25_PausedTimeNotCounted ==
    [][(LoopEnter /\ playback.resumedAt # 0)
           => tick'.e <= now - playback.resumedAt]_vars

-----------------------------------------------------------------------------
(* Claims about reloaded data, checked under SpecReload *)

\* C26: after any reloads through the dataGenerator that the parser accepted
\* and any ticks, the current frame index is less than the frame count of
\* the header of the loaded data, and the slice _getFrameBytes takes lies
\* inside the loaded buffer and has the frameSizeBytes bytes of that header.
C26_FrameInsideLoadedData ==
    thrown = NoError =>
        /\ player.currentFrame < NumValue(player.header.frameCount)
        /\ player.dataOffset + (player.currentFrame + 1) * player.frameSizeBytes
               <= Len(player._u8)
        /\ Len(_getFrameBytes(player)) = player.header.frameSizeBytes

-----------------------------------------------------------------------------
(* Claims about the length of decompressed data, checked under SpecCodec *)

\* The bytes the runs of a stream write into a buffer of expected bytes:
\* whole voxels, as many as the counts add up to and as fit
WrittenBytes(stream, expected) ==
    4 * Min(SumCounts(stream, 0), expected \div 4)

\* C28: decompressRLE returns exactly expectedLength bytes for every
\* compressed input and every expectedLength >= 0, each byte that no run
\* wrote being 0; and decompressGlyfFile of a file of compression type RLE
\* returns exactly 28 + frameSizeBytes * frameCount bytes whose header has
\* compression type NONE.
C28_ExactLength ==
    /\ pc = "decompressed" =>
          /\ thrown = NoError
          /\ Len(decompressed) = expectedLength
          /\ \A k \in (WrittenBytes(compressedData, expectedLength) + 1)
                          ..expectedLength : decompressed[k] = 0
    /\ (/\ LastCall = "decompressGlyfFile"
        /\ Parses(previous)
        /\ previous[24] = COMPRESSION_RLE) =>
          /\ thrown = NoError
          /\ Len(buffer) = 28 + HeaderRecord(previous).frameSizeBytes
                                  * NumValue(HeaderRecord(previous).frameCount)
          /\ Parses(buffer)
          /\ HeaderRecord(buffer).compressionType = COMPRESSION_NONE

\* A crafted stream whose runs fall short of expectedLength, decompressed
C28_Witness ==
    /\ pc = "decompressed"
    /\ Len(compressedData) > 0
    /\ WrittenBytes(compressedData, expectedLength) > 0
    /\ WrittenBytes(compressedData, expectedLength) + 4 < expectedLength
    /\ Len(decompressed) = expectedLength

\* An RLE file whose runs fall short of its header, decompressed
ShortRleFileDecompressed ==
    /\ LastCall = "decompressGlyfFile"
    /\ Parses(previous)
    /\ previous[24] = COMPRESSION_RLE
    /\ 4 * SumCounts(Slice(previous, 28, Len(previous)), 0) + 28 < Len(buffer)

====
